---- MODULE Spec2Model ----
(***************************************************************************)
(* A state-machine model of boids_algorithm.py: the shared per-agent       *)
(* arrays boid_locations / boid_headings, each Boid sprite's rect and      *)
(* prev_vec, and the frame loop that calls Boid.update() on every sprite   *)
(* in turn.                                                                *)
(*                                                                         *)
(* Numbers.  Pixel coordinates are integers, as pygame's Rect keeps them.  *)
(* Python floats are modelled in fixed point: a float v is the integer     *)
(* v * Scale, rounded to nearest.  Headings are whole degrees; sin and cos *)
(* come from a four-digit table and atan2 is inverted against that table.  *)
(* A division by zero yields the value ZeroDivisionError, which every      *)
(* later computation propagates, as the Python exception would.            *)
(***************************************************************************)
EXTENDS Integers, Sequences, FiniteSets, TLC

\* ------------------------------------------------------------ constants
WIDTH == 1024
HEIGHT == 576
BOID_VIEWRANGE_PX == 50
VELOCITY == 10
\* The three rule weights 0.5, 0.3, 0.4 in tenths, alpha = 0.35 in hundredths.
ALIGN_WEIGHT == 5
COHESION_WEIGHT == 3
SEPARATION_WEIGHT == 4
ALPHA == 35
\* The sprite image is pygame.Surface([10, 15]).
IMAGE_W == 10
IMAGE_H == 15
\* The literal 20 of bounce_at_boundary's WIDTH - 20 and HEIGHT - 20.
EDGE_MARGIN == 20
\* randint(-100, 100)/500: the range and the divisor.
JITTER_MAX == 100
JITTER_DIV == 500
\* randint(-10, 10): the heading jitter of a boid without neighbours, in degrees.
JITTER_DEG == 10

\* ------------------------------------------------------------ bounds
\* Population (NUM_BOIDS is 40 in the program) and the number of update()
\* calls the model follows.
NumBoids == 3
MaxSteps == 6

\* Fixed-point resolution of the float model: 4 decimal digits.
Scale == 10 ^ 4

Boids == 0 .. (NumBoids - 1)

\* ------------------------------------------------------------ arithmetic
Abs(a) == IF a < 0 THEN -a ELSE a

Max(a, b) == IF a >= b THEN a ELSE b

\* a / b rounded to the nearest integer, b > 0 (a float operation rounds to nearest).
RoundDiv(a, b) ==
  IF a >= 0 THEN (2 * a + b) \div (2 * b) ELSE -((2 * (-a) + b) \div (2 * b))

\* int(a / b): truncation toward zero, b > 0 (pygame's Rect stores int(x)).
TruncDiv(a, b) == IF a >= 0 THEN a \div b ELSE -((-a) \div b)

ZeroDivisionError == <<"ZeroDivisionError">>

IsError(v) == v = ZeroDivisionError

RECURSIVE IsqrtBis(_, _, _)
IsqrtBis(n, lo, hi) ==
  IF hi - lo <= 1 THEN lo
  ELSE LET mid == (lo + hi) \div 2
       IN IF mid * mid <= n THEN IsqrtBis(n, mid, hi) ELSE IsqrtBis(n, lo, mid)

\* floor(sqrt(n)) for 0 <= n < 2^31
Isqrt(n) == IsqrtBis(n, 0, 46341)

\* The float exponent: the same direction with the larger component brought
\* into Scale*3/2 .. Scale*3, so that squares fit and sqrt keeps 4 digits.
Fit(x, y) ==
  LET m == Max(Abs(x), Abs(y))
      hi == 3 * Scale
  IN IF m = 0 THEN <<0, 0>>
     ELSE IF m > hi THEN LET k == m \div hi + 1 IN <<RoundDiv(x, k), RoundDiv(y, k)>>
     ELSE LET k == hi \div m IN <<x * k, y * k>>

SinTable ==
   << 0, 175, 349, 523, 698, 872, 1045, 1219, 1392, 1564, 1736, 1908, 2079,
      2250, 2419, 2588, 2756, 2924, 3090, 3256, 3420, 3584, 3746, 3907, 4067, 4226,
      4384, 4540, 4695, 4848, 5000, 5150, 5299, 5446, 5592, 5736, 5878, 6018, 6157,
      6293, 6428, 6561, 6691, 6820, 6947, 7071, 7193, 7314, 7431, 7547, 7660, 7771,
      7880, 7986, 8090, 8192, 8290, 8387, 8480, 8572, 8660, 8746, 8829, 8910, 8988,
      9063, 9135, 9205, 9272, 9336, 9397, 9455, 9511, 9563, 9613, 9659, 9703, 9744,
      9781, 9816, 9848, 9877, 9903, 9925, 9945, 9962, 9976, 9986, 9994, 9998, 10000 >>

\* sin(deg * DEG_TO_RAD) * Scale
Sin(deg) ==
  LET d == deg % 360
  IN IF d <= 90 THEN SinTable[d + 1]
     ELSE IF d <= 180 THEN SinTable[180 - d + 1]
     ELSE IF d <= 270 THEN -SinTable[d - 180 + 1]
     ELSE -SinTable[360 - d + 1]

\* cos(deg * DEG_TO_RAD) * Scale
Cos(deg) == Sin(deg + 90)

\* For a, b >= 0 not both 0: the whole degree d in 0..90 nearest to the angle
\* whose sine is proportional to a and whose cosine is proportional to b.
RECURSIVE AngleBis(_, _, _, _)
AngleBis(a, b, lo, hi) ==
  IF hi - lo <= 1
  THEN IF hi > 90 THEN lo
       ELSE IF Abs(a * Cos(lo) - b * Sin(lo)) <= Abs(a * Cos(hi) - b * Sin(hi))
            THEN lo ELSE hi
  ELSE LET mid == (lo + hi) \div 2
       IN IF a * Cos(mid) - b * Sin(mid) >= 0
          THEN AngleBis(a, b, mid, hi) ELSE AngleBis(a, b, lo, mid)

\* (atan2(x, y) * RAD_TO_DEG) % 360 in whole degrees; atan2(0, 0) is 0.
Atan2Deg(x, y) ==
  LET f == Fit(x, y)
      fx == f[1]
      fy == f[2]
  IN IF fx = 0 /\ fy = 0 THEN 0
     ELSE IF fx >= 0 /\ fy > 0 THEN AngleBis(fx, fy, 0, 91)
     ELSE IF fx > 0 /\ fy <= 0 THEN 90 + AngleBis(-fy, fx, 0, 91)
     ELSE IF fx <= 0 /\ fy < 0 THEN 180 + AngleBis(-fx, -fy, 0, 91)
     ELSE (270 + AngleBis(fy, -fx, 0, 91)) % 360


\* ------------------------------------------------------------ vectors
\* A vector is <<x, y>>; an operation on a raised error is that error.
VAdd(u, v) == IF IsError(u) \/ IsError(v) THEN ZeroDivisionError
  ELSE <<u[1] + v[1], u[2] + v[2]>>

DistSq(p, q) == (p[1] - q[1]) ^ 2 + (p[2] - q[2]) ^ 2

\* ------------------------------------------------------------ Boid methods
\* normalize_vector without its zero-length guard.
normalize_vector_unguarded(x, y, len_desired) ==
  LET f == Fit(x, y)
      length == Isqrt(f[1] * f[1] + f[2] * f[2])
  IN IF length = 0 THEN ZeroDivisionError
     ELSE <<len_desired * RoundDiv(f[1] * Scale, length),
            len_desired * RoundDiv(f[2] * Scale, length)>>

normalize_vector(x, y, len_desired) ==
  LET f == Fit(x, y)
      length == Isqrt(f[1] * f[1] + f[2] * f[2])
  IN IF length = 0 THEN <<0, 0>>
     ELSE <<len_desired * RoundDiv(f[1] * Scale, length),
            len_desired * RoundDiv(f[2] * Scale, length)>>

\* pygame.transform.rotate: the bounding box of the 10 x 15 image turned by heading.
RotatedSize(heading) ==
  << (IMAGE_W * Abs(Cos(heading)) + IMAGE_H * Abs(Sin(heading))) \div Scale,
     (IMAGE_W * Abs(Sin(heading)) + IMAGE_H * Abs(Cos(heading))) \div Scale >>

\* The new rect keeps the old rect's centre (integer centre, as pygame.Rect).
rotate_boid(r, heading) ==
  LET cx == r.x + r.w \div 2
      cy == r.y + r.h \div 2
      size == RotatedSize(heading)
  IN [x |-> cx - size[1] \div 2, y |-> cy - size[2] \div 2, w |-> size[1], h |-> size[2]]

\* find_local_boids with <= for <.
find_local_boids_inclusive(boid_no, my_index, locations) ==
  SelectSeq([k \in 1 .. NumBoids |-> k - 1],
            LAMBDA i : DistSq(locations[i], locations[my_index]) <= BOID_VIEWRANGE_PX ^ 2
                       /\ i # boid_no)

find_local_boids(boid_no, my_index, locations) ==
  SelectSeq([k \in 1 .. NumBoids |-> k - 1],
            LAMBDA i : DistSq(locations[i], locations[my_index]) < BOID_VIEWRANGE_PX ^ 2
                       /\ i # boid_no)

RECURSIVE alignment_sum(_, _)
alignment_sum(local_boids, headings) ==
  IF local_boids = <<>> THEN <<0, 0>>
  ELSE LET i == Head(local_boids)
       IN VAdd(<<Sin(headings[i]), -Cos(headings[i])>>,
               alignment_sum(Tail(local_boids), headings))

alignment(local_boids, headings) ==
  LET s == alignment_sum(local_boids, headings)
  IN normalize_vector(s[1], s[2], 1)

RECURSIVE position_sum(_, _)
position_sum(local_boids, locations) ==
  IF local_boids = <<>> THEN <<0, 0>>
  ELSE VAdd(locations[Head(local_boids)], position_sum(Tail(local_boids), locations))

cohesion(boid_no, local_boids, locations) ==
  LET s == position_sum(local_boids, locations)
      n == Len(local_boids)
  IN IF n = 0 THEN ZeroDivisionError
     ELSE normalize_vector(RoundDiv(s[1] * Scale, n) - locations[boid_no][1] * Scale,
                           RoundDiv(s[2] * Scale, n) - locations[boid_no][2] * Scale, 1)

\* separation's term without the mag_sq != 0 test.
separation_term_unguarded(mine, other) ==
  LET dx == mine[1] - other[1]
      dy == mine[2] - other[2]
      mag_sq == dx ^ 2 + dy ^ 2
  IN IF mag_sq = 0 THEN ZeroDivisionError
     ELSE <<RoundDiv(dx * Scale, mag_sq), RoundDiv(dy * Scale, mag_sq)>>

\* One neighbour's term of the repulsion sum: (dx, dy)/mag_sq, or (dx, dy) at mag_sq = 0.
separation_term(mine, other) ==
  LET dx == mine[1] - other[1]
      dy == mine[2] - other[2]
      mag_sq == dx ^ 2 + dy ^ 2
  IN IF mag_sq # 0
     THEN <<RoundDiv(dx * Scale, mag_sq), RoundDiv(dy * Scale, mag_sq)>>
     ELSE <<dx * Scale, dy * Scale>>

RECURSIVE separation_sum(_, _, _)
separation_sum(boid_no, local_boids, locations) ==
  IF local_boids = <<>> THEN <<0, 0>>
  ELSE VAdd(separation_term(locations[boid_no], locations[Head(local_boids)]),
            separation_sum(boid_no, Tail(local_boids), locations))

separation(boid_no, local_boids, locations) ==
  LET s == separation_sum(boid_no, local_boids, locations)
  IN IF IsError(s) THEN s ELSE normalize_vector(s[1], s[2], 1)

\* bounce_at_boundary reversing the whole vector when either axis leaves the area.
bounce_at_boundary_both(boid_no, xvec, yvec, locations) ==
  LET new_x == locations[boid_no][1] * Scale + xvec
      new_y == locations[boid_no][2] * Scale + yvec
  IN IF \/ new_x < 0 \/ new_x > (WIDTH - EDGE_MARGIN) * Scale
        \/ new_y < 0 \/ new_y > (HEIGHT - EDGE_MARGIN) * Scale
     THEN <<-xvec, -yvec>> ELSE <<xvec, yvec>>

bounce_at_boundary(boid_no, xvec, yvec, locations) ==
  LET new_x == locations[boid_no][1] * Scale + xvec
      new_y == locations[boid_no][2] * Scale + yvec
  IN << IF new_x < 0 \/ new_x > (WIDTH - EDGE_MARGIN) * Scale THEN -xvec ELSE xvec,
        IF new_y < 0 \/ new_y > (HEIGHT - EDGE_MARGIN) * Scale THEN -yvec ELSE yvec >>

smoothing(vecx, vecy, prev) ==
  << RoundDiv(vecx * ALPHA + (100 - ALPHA) * prev[1], 100),
     RoundDiv(vecy * ALPHA + (100 - ALPHA) * prev[2], 100) >>

\* The steering vector of the branch with neighbours; jx, jy are the two randint(-100, 100).
flock_steering(alignment_vector, cohesion_vector, separation_vector, jx, jy) ==
  IF IsError(alignment_vector) \/ IsError(cohesion_vector) \/ IsError(separation_vector)
  THEN ZeroDivisionError
  ELSE << RoundDiv(alignment_vector[1] * ALIGN_WEIGHT + cohesion_vector[1] * COHESION_WEIGHT
                   + separation_vector[1] * SEPARATION_WEIGHT, 10)
            + RoundDiv(jx * Scale, JITTER_DIV),
          RoundDiv(alignment_vector[2] * ALIGN_WEIGHT + cohesion_vector[2] * COHESION_WEIGHT
                   + separation_vector[2] * SEPARATION_WEIGHT, 10)
            + RoundDiv(jy * Scale, JITTER_DIV) >>

\* lone_steering with the heading's sine and cosine on the wrong axes.
lone_steering_swapped(heading, jh) ==
  LET randomized_heading == heading + jh
  IN <<Cos(randomized_heading), Sin(randomized_heading)>>

\* The steering vector of the branch without neighbours; jh is randint(-10, 10).
lone_steering(heading, jh) ==
  LET randomized_heading == heading + jh
  IN <<Sin(randomized_heading), -Cos(randomized_heading)>>

\* Lines 195-213 of update(): the steering vector of the branch taken.
raw_steering(boid_no, local_boids, locations, headings, jx, jy, jh) ==
  IF Len(local_boids) # 0
  THEN flock_steering(alignment(local_boids, headings),
                      cohesion(boid_no, local_boids, locations),
                      separation(boid_no, local_boids, locations), jx, jy)
  ELSE lone_steering(headings[boid_no], jh)

\* normalize_vector and smoothing on a vector value; a raised error stays raised.
normalized(v, len_desired) ==
  IF IsError(v) THEN v ELSE normalize_vector(v[1], v[2], len_desired)

smoothed(v, prev) == IF IsError(v) THEN v ELSE smoothing(v[1], v[2], prev)

\* Lines 216-218 of update(): normalize to VELOCITY, smooth, normalize again.
proposal(raw, prev) == normalized(smoothed(normalized(raw, VELOCITY), prev), VELOCITY)

\* Lines 221-224 of update(): bounce, then the heading of the bounced vector.
decision(boid_no, local_boids, raw, proposed, locations) ==
  LET out == IF IsError(proposed) THEN <<0, 0>>
             ELSE bounce_at_boundary(boid_no, proposed[1], proposed[2], locations)
  IN [ local_boids |-> local_boids,
       raw |-> raw,
       proposed |-> proposed,
       steering_vector |-> out,
       new_heading |-> Atan2Deg(out[1], -out[2]),
       failed |-> IsError(proposed) ]

steer_from(boid_no, local_boids, raw, locations, prev) ==
  decision(boid_no, local_boids, raw, proposal(raw, prev), locations)

steer_with(boid_no, local_boids, locations, headings, prev, jx, jy, jh) ==
  steer_from(boid_no, local_boids,
             raw_steering(boid_no, local_boids, locations, headings, jx, jy, jh),
             locations, prev)

\* update() up to the new heading: everything it computes from the arrays it reads.
\* failed: a ZeroDivisionError was raised on the way.
steer(boid_no, locations, headings, prev, jx, jy, jh) ==
  steer_with(boid_no, find_local_boids(boid_no, boid_no, locations),
             locations, headings, prev, jx, jy, jh)

\* ------------------------------------------------------------ state
VARIABLES
  boid_locations,   \* module-level list: boid index -> <<x, y>>
  boid_headings,    \* module-level list: boid index -> heading in degrees
  rect,             \* each sprite's self.rect: [x, y, w, h]
  prev_vec,         \* each sprite's self.prev_vec
  steps,            \* update() calls made so far; the next sprite is steps % NumBoids
  crashed,          \* an exception left update() and ended the program
  frame_locations,  \* history: boid_locations when the current frame began
  frame_headings,   \* history: boid_headings when the current frame began
  last,             \* history: what the most recent update() read, drew and computed
  probe             \* history: the direct call of the three rules made since the last update()

vars == <<boid_locations, boid_headings, rect, prev_vec, steps, crashed,
          frame_locations, frame_headings, last, probe>>

\* The values randint is let to return: an end and the middle of randint(-100, 100),
\* both ends and the middle of randint(-10, 10).
JitterDraws == {-JITTER_MAX, 0}

HeadingDraws == {-JITTER_DEG, 0, JITTER_DEG}

\* Starting populations, each boid <<xpos, ypos, heading>> as __init__'s three
\* randint calls can return them; boid i takes entry i + 1.
Scenarios ==
  << \* a boid between a far and a near neighbour, all heading up
     << <<100, 100, 0>>, <<100, 140, 0>>, <<100, 99, 0>>, <<600, 300, 90>>, <<100, 120, 180>> >>,
     \* coincident boids, one at exactly the view range, one just inside it
     << <<300, 300, 90>>, <<300, 300, 270>>, <<330, 340, 0>>, <<300, 349, 180>>, <<300, 300, 45>> >>,
     \* lone boids on the right edge and in two corners
     << <<1024, 300, 270>>, <<1000, 552, 135>>, <<2, 3, 315>>, <<500, 100, 0>>, <<700, 576, 200>> >>,
     \* lone boids one pixel from the right wall, on the bottom wall, in mid-field
     << <<1003, 200, 90>>, <<500, 556, 170>>, <<400, 250, 360>>, <<0, 0, 225>>, <<60, 300, 280>> >>,
     \* lone boids just inside the left wall, on the bottom edge and in the corner
     \* of the rectangle bounce_at_boundary tests against
     << <<4, 300, 342>>, <<500, 556, 90>>, <<1004, 556, 45>>, <<0, 0, 100>>, <<1014, 566, 315>> >>,
     \* a close pair with opposite headings and a third boid in range of both
     << <<500, 300, 90>>, <<510, 300, 270>>, <<505, 280, 10>>, <<1004, 8, 80>>, <<0, 556, 250>> >> >>

NoUpdate ==
  [ boid_no |-> -1, jx |-> 0, jy |-> 0, jh |-> 0, prev |-> <<0, 0>>,
    location |-> <<0, 0>>, heading |-> 0, local_boids |-> <<>>, raw |-> <<0, 0>>,
    proposed |-> <<0, 0>>, steering_vector |-> <<0, 0>>, new_heading |-> 0 ]

NoProbe ==
  [ boid_no |-> -1, local_boids |-> <<>>, alignment |-> <<0, 0>>,
    cohesion |-> <<0, 0>>, separation |-> <<0, 0>> ]

\* Boid.__init__ for every boid of one scenario.
Init ==
  \E s \in 1 .. Len(Scenarios) :
    /\ boid_locations = [i \in Boids |-> <<Scenarios[s][i + 1][1], Scenarios[s][i + 1][2]>>]
    /\ boid_headings = [i \in Boids |-> Scenarios[s][i + 1][3]]
    /\ rect = [i \in Boids |->
                 rotate_boid([x |-> Scenarios[s][i + 1][1], y |-> Scenarios[s][i + 1][2],
                              w |-> IMAGE_W, h |-> IMAGE_H], Scenarios[s][i + 1][3])]
    /\ prev_vec = [i \in Boids |-> <<0, 0>>]
    /\ steps = 0
    /\ crashed = FALSE
    /\ frame_locations = boid_locations
    /\ frame_headings = boid_headings
    /\ last = NoUpdate
    /\ probe = NoProbe

\* Boid.update() of sprite i, called by boids.update() in the frame loop.
Update(i) ==
  /\ ~crashed
  /\ steps < MaxSteps
  /\ i = steps % NumBoids
  /\ \E jx \in JitterDraws, jy \in JitterDraws, jh \in HeadingDraws :
       \* randint is called only in the branch taken
       /\ IF Len(find_local_boids(i, i, boid_locations)) # 0
          THEN jh = 0 ELSE jx = 0 /\ jy = 0
       /\ \E d \in {steer(i, boid_locations, boid_headings, prev_vec[i], jx, jy, jh)} :
          \E turned \in {rotate_boid(rect[i], d.new_heading)} :
          \E moved \in {[turned EXCEPT
                           !.x = TruncDiv(turned.x * Scale + d.steering_vector[1], Scale),
                           !.y = TruncDiv(turned.y * Scale + d.steering_vector[2], Scale)]} :
            /\ frame_locations' = IF i = 0 THEN boid_locations ELSE frame_locations
            /\ frame_headings' = IF i = 0 THEN boid_headings ELSE frame_headings
            /\ last' = [ boid_no |-> i, jx |-> jx, jy |-> jy, jh |-> jh,
                         prev |-> prev_vec[i], location |-> boid_locations[i],
                         heading |-> boid_headings[i], local_boids |-> d.local_boids,
                         raw |-> d.raw, proposed |-> d.proposed,
                         steering_vector |-> d.steering_vector,
                         new_heading |-> d.new_heading ]
            /\ steps' = steps + 1
            /\ IF d.failed
               THEN /\ crashed' = TRUE
                    /\ UNCHANGED <<boid_locations, boid_headings, rect, prev_vec>>
               ELSE /\ crashed' = FALSE
                    /\ rect' = [rect EXCEPT ![i] = moved]
                    /\ boid_headings' = [boid_headings EXCEPT ![i] = d.new_heading]
                    /\ boid_locations' = [boid_locations EXCEPT ![i] = <<moved.x, moved.y>>]
                    /\ prev_vec' = [prev_vec EXCEPT ![i] = d.steering_vector]
  /\ probe' = NoProbe

Next == \E i \in Boids : Update(i)

Spec == Init /\ [][Next]_vars

\* The ascending list of the boids in S, as find_local_boids would order them.
ListOf(S) == SelectSeq([k \in 1 .. NumBoids |-> k - 1], LAMBDA i : i \in S)

\* A direct call of the three steering rules of sprite i on a neighbour list.
CallRules(i) ==
  /\ ~crashed
  /\ \E S \in SUBSET (Boids \ {i}) :
       probe' = [ boid_no |-> i, local_boids |-> ListOf(S),
                  alignment |-> alignment(ListOf(S), boid_headings),
                  cohesion |-> cohesion(i, ListOf(S), boid_locations),
                  separation |-> separation(i, ListOf(S), boid_locations) ]
  /\ UNCHANGED <<boid_locations, boid_headings, rect, prev_vec, steps, crashed,
                 frame_locations, frame_headings, last>>

NextRules == \E i \in Boids : Update(i) \/ CallRules(i)

SpecRules == Init /\ [][NextRules]_vars

\* ------------------------------------------------------------ properties
Updated == last.boid_no # -1

\* The pixel rectangle bounce_at_boundary tests against.
Inner(p) ==
  /\ 0 <= p[1] /\ p[1] <= WIDTH - EDGE_MARGIN
  /\ 0 <= p[2] /\ p[2] <= HEIGHT - EDGE_MARGIN

\* Whether bounce_at_boundary's would-be coordinate leaves 0 .. limit.
Leaves(coord, vec, limit) ==
  coord * Scale + vec < 0 \/ coord * Scale + vec > limit * Scale

\* A vector's length in fixed point, for vectors whose components VELOCITY divides.
SpeedOf(v) == VELOCITY * Isqrt((v[1] \div VELOCITY) ^ 2 + (v[2] \div VELOCITY) ^ 2)

SpeedTolerance == VELOCITY * (Scale \div 1000)

\* The smaller angle between two headings, in degrees.
Turn(h1, h2) == LET t == (h1 - h2) % 360 IN IF t > 180 THEN 360 - t ELSE t

\* C1: every update() of a frame decides from the arrays as they stood when the
\* frame began: the neighbour list, the committed vector and the new heading of
\* the latest update() are those the same draws give on the frame's first state.
C1_FrameConsistentRead ==
  Updated =>
    LET d == steer(last.boid_no, frame_locations, frame_headings, last.prev,
                   last.jx, last.jy, last.jh)
    IN /\ d.local_boids = last.local_boids
       /\ d.steering_vector = last.steering_vector
       /\ d.new_heading = last.new_heading

\* C2: after every completed update() the vector stored in prev_vec is not the
\* zero vector and has length VELOCITY.
C2_VelocityAtMaxSpeed ==
  Updated =>
    /\ prev_vec[last.boid_no] # <<0, 0>>
    /\ Abs(SpeedOf(prev_vec[last.boid_no]) - VELOCITY * Scale) <= SpeedTolerance

\* C3: every entry of boid_locations lies in [0, WIDTH] x [0, HEIGHT].
C3_PositionInWorld ==
  \A i \in Boids :
    /\ 0 <= boid_locations[i][1] /\ boid_locations[i][1] <= WIDTH
    /\ 0 <= boid_locations[i][2] /\ boid_locations[i][2] <= HEIGHT

\* C4: alignment, cohesion and separation called on an empty neighbour list each
\* return the zero vector and raise nothing.
C4_EmptyNeighbourSet ==
  (probe.boid_no # -1 /\ probe.local_boids = <<>>) =>
    /\ probe.alignment = <<0, 0>>
    /\ probe.cohesion = <<0, 0>>
    /\ probe.separation = <<0, 0>>

\* bounce_at_boundary's contract: each axis reversed exactly when its own
\* would-be coordinate leaves the inner rectangle.
Reflected(p, xvec, yvec) ==
  << IF Leaves(p[1], xvec, WIDTH - EDGE_MARGIN) THEN -xvec ELSE xvec,
     IF Leaves(p[2], yvec, HEIGHT - EDGE_MARGIN) THEN -yvec ELSE yvec >>

TestVelocities == {-VELOCITY * Scale, -1, 0, 1, VELOCITY * Scale}

\* C5: bounce_at_boundary returns -xvec exactly when x + xvec is outside
\* [0, WIDTH - 20] and xvec otherwise, -yvec exactly when y + yvec is outside
\* [0, HEIGHT - 20] and yvec otherwise, each axis on its own: for the vector the
\* latest update() proposed, and for every boid and test velocity in every state.
C5_BounceAtBoundary ==
  /\ Updated =>
       last.steering_vector = Reflected(last.location, last.proposed[1], last.proposed[2])
  /\ \A i \in Boids, xv \in TestVelocities, yv \in TestVelocities :
       bounce_at_boundary(i, xv, yv, boid_locations) = Reflected(boid_locations[i], xv, yv)

\* A boid inside the inner rectangle heading into the right wall: X reversed, Y kept.
C5_Witness ==
  /\ Updated
  /\ Inner(last.location)
  /\ last.proposed[1] > 0 /\ last.proposed[2] # 0
  /\ Leaves(last.location[1], last.proposed[1], WIDTH - EDGE_MARGIN)
  /\ ~Leaves(last.location[2], last.proposed[2], HEIGHT - EDGE_MARGIN)
  /\ last.steering_vector = <<-last.proposed[1], last.proposed[2]>>

\* The boids within the view range of boid i, by the claim's wording.
InView(i, locations) ==
  { j \in Boids \ {i} :
      (locations[j][1] - locations[i][1]) * (locations[j][1] - locations[i][1])
      + (locations[j][2] - locations[i][2]) * (locations[j][2] - locations[i][2])
        < BOID_VIEWRANGE_PX * BOID_VIEWRANGE_PX }

Range(seq) == {seq[k] : k \in 1 .. Len(seq)}

\* C6: find_local_boids of boid i returns exactly the boids j # i at squared
\* distance < BOID_VIEWRANGE_PX^2, each once: in every state for every boid, and
\* for the list the first update() of a frame used, on the frame's first state.
C6_FindLocalBoids ==
  /\ \A i \in Boids :
       LET found == find_local_boids(i, i, boid_locations)
       IN /\ Range(found) = InView(i, boid_locations)
          /\ Len(found) = Cardinality(InView(i, boid_locations))
  /\ (Updated /\ last.boid_no = 0) =>
       Range(last.local_boids) = InView(0, frame_locations)

\* update() of boid 0 ran with a coincident boid (listed) and a boid at exactly
\* the view range (not listed).
C6_Witness ==
  /\ Updated /\ last.boid_no = 0
  /\ \E j \in Range(last.local_boids) : frame_locations[j] = frame_locations[0]
  /\ \E k \in Boids \ {0} :
       /\ DistSq(frame_locations[k], frame_locations[0]) = BOID_VIEWRANGE_PX ^ 2
       /\ k \notin Range(last.local_boids)

\* C7 as claimed: a boid without neighbours moves at every update() and its
\* heading turns by at most JITTER_DEG, walls included.
C7_LoneBoidJitterOnly ==
  (Updated /\ ~crashed /\ last.local_boids = <<>>) =>
    /\ boid_locations[last.boid_no] # last.location
    /\ Turn(last.new_heading, last.heading) <= JITTER_DEG

\* C7 amended: a boid without neighbours moves at every update(), and its heading
\* turns by at most JITTER_DEG in every update() in which bounce_at_boundary
\* reverses neither component.
C7_LoneBoidJitterUnlessBounced ==
  (Updated /\ ~crashed /\ last.local_boids = <<>>) =>
    /\ boid_locations[last.boid_no] # last.location
    /\ (last.steering_vector = last.proposed =>
          Turn(last.new_heading, last.heading) <= JITTER_DEG)

\* A lone boid with a velocity behind it turned by the jitter and moved, unbounced.
C7_Witness ==
  /\ Updated /\ last.local_boids = <<>>
  /\ last.prev # <<0, 0>> /\ last.jh # 0
  /\ last.steering_vector = last.proposed
  /\ last.new_heading # last.heading
  /\ boid_locations[last.boid_no] # last.location

\* One neighbour's share of the repulsion sum, by the claim's wording.
Repulsion(mine, other) ==
  IF mine = other THEN <<0, 0>>
  ELSE << RoundDiv((mine[1] - other[1]) * Scale, DistSq(mine, other)),
          RoundDiv((mine[2] - other[2]) * Scale, DistSq(mine, other)) >>

RECURSIVE RepulsionSum(_, _, _)
RepulsionSum(i, neighbours, locations) ==
  IF neighbours = <<>> THEN <<0, 0>>
  ELSE LET r == Repulsion(locations[i], locations[Head(neighbours)])
           rest == RepulsionSum(i, Tail(neighbours), locations)
       IN <<r[1] + rest[1], r[2] + rest[2]>>

\* C8: in separation a coincident neighbour adds the zero vector and no division
\* by zero happens, every other neighbour adds its displacement over the squared
\* distance, and with every neighbour coincident the rule returns the zero vector.
C8_Separation ==
  \A i \in Boids :
    LET near == find_local_boids(i, i, boid_locations)
    IN /\ separation_sum(i, near, boid_locations) = RepulsionSum(i, near, boid_locations)
       /\ \A j \in Boids \ {i} :
            separation_sum(i, <<j>>, boid_locations)
              = Repulsion(boid_locations[i], boid_locations[j])
       /\ (\A j \in Range(near) : boid_locations[j] = boid_locations[i]) =>
            separation(i, near, boid_locations) = <<0, 0>>

\* update() of boid 0 ran with neighbours that were all at its own position.
C8_Witness ==
  /\ Updated /\ ~crashed /\ last.boid_no = 0
  /\ last.local_boids # <<>>
  /\ \A j \in Range(last.local_boids) : frame_locations[j] = frame_locations[0]
  /\ separation(0, last.local_boids, frame_locations) = <<0, 0>>

\* C9: no update() raises: the program is never ended by an exception.
C9_NoStepFails == ~crashed

\* An update() whose steering vector summed to exactly zero completed.
C9_Witness ==
  /\ Updated /\ ~crashed
  /\ last.local_boids # <<>>
  /\ last.raw = <<0, 0>>
  /\ steps > 0

\* C10: an update() that starts with the boid's stored position in the inner
\* rectangle and proposes a velocity no longer than VELOCITY leaves the stored
\* position in the inner rectangle.
C10_InnerRectanglePreserved ==
  ( /\ Updated /\ ~crashed
    /\ Inner(last.location)
    /\ SpeedOf(last.proposed) <= VELOCITY * Scale + SpeedTolerance ) =>
    Inner(boid_locations[last.boid_no])

====
